---- MODULE Spec2Model ----
(***************************************************************************)
(* The command-line front end of mdast (src/cli.js): invocation           *)
(* validation, input dispatch (file or piped standard input), the run()   *)
(* pipeline (configuration, plugin lookup and load, parse, stringify or   *)
(* AST serialisation, output) and the failure handler fail().             *)
(*                                                                         *)
(* The script is single threaded.  The top-level script and every         *)
(* callback run to completion; pc names the statement the running         *)
(* callback is at, and pc = "loop" means that control is back in the      *)
(* event loop, where the pending I/O completions are the only steps.      *)
(***************************************************************************)
EXTENDS Integers, Sequences, FiniteSets, TLC

(***************************************************************************)
(* Bounds of the model.                                                    *)
(***************************************************************************)
\* Largest number of positional file arguments.
MaxFiles == 2
\* Largest number of 'data' events standard input emits before 'end'.
MaxData == 2
\* Largest length of the effective plugin list.
MaxPlugins == 2
\* Largest depth of the working directory below the filesystem root.
MaxDepth == 3
\* Largest number of entries, or of tokens, in one option argument.
MaxEntries == 2
\* Largest number of plugin tokens on the command line.
MaxTokens == 4

\* Positional file names.
FileNames == {"a.md", "b.md"}
\* program.output: <<>> is null (option absent), <<s>> the string given.
OutputValues == {<<>>, <<"">>, <<"o.md">>}
\* Plugin identifiers.
Ids == {"p", "q"}
\* Directory names.
DirNames == {"a", "b"}
\* The working directory of the pipeline specification, /a/b.
WorkDir == <<"a", "b">>

\* Exit status of a process ended by an uncaught exception: 1, and 8 on
\* node 0.10 (the note at fail()).
UncaughtExitCodes == {1, 8}

SeqUpTo(S, n) == UNION {[1..k -> S] : k \in 0..n}

VARIABLES
    expextPipeIn,   \* !stdin.isTTY
    cwd,            \* process.cwd(), a sequence of directory names
    root,           \* findRoot(), a path string, held as its parts
    fsPaths,        \* the absolute paths that exist
    broken,         \* the module targets whose load throws
    program,        \* the parsed command line: args, output, ast, settings
    optArg,         \* the --setting or --use occurrence commander is at
    supplied,       \* what the occurrences read so far have supplied
    setting,        \* program.setting
    use,            \* program.use
    files,          \* program.args, later the resolved input paths
    pc,             \* the statement the running callback is at
    reading,        \* the pending fs.readFile: <<>> or <<path>>
    listening,      \* the 'data' listener is attached to stdin
    dataSeen,       \* the 'data' events emitted so far
    stdinEnded,     \* stdin has emitted 'end'
    filename,       \* run's filename argument: <<>> is undefined
    options,        \* <<>>, or <<plugins>> once getConfiguration returned
    index,          \* plugins of options.plugins mapped by find in this run
    calls,          \* how often each collaborator was called
    loads,          \* every require() find made, in order
    runs,           \* calls of run() so far
    plugins,        \* the array options.plugins.map(find) is building
    used,           \* <<>>, or <<list>> once parser.use(list) returned
    trace,          \* the stages this run has entered, in order
    stdoutLog,      \* what was written to standard output, in order
    stderrLog,      \* what was written to standard error, in order
    pendingWrites,  \* the fs.writeFile calls in flight (paths)
    written,        \* the paths fs.writeFile completed, in order
    exitStatus,     \* -1 while the process lives
    viaFail,        \* the process was ended by fail()
    failedStage     \* the stage whose failure ended the process

argVars == <<optArg, supplied, setting, use>>
envVars == <<expextPipeIn, cwd, root, fsPaths, broken, program, argVars>>
inVars == <<reading, listening, dataSeen, stdinEnded>>
runVars == <<filename, options, index, calls, loads, runs, plugins, used, trace>>
outVars == <<stdoutLog, pendingWrites, written>>
endVars == <<stderrLog, exitStatus, viaFail, failedStage>>
vars == <<envVars, files, pc, inVars, runVars, outVars, endVars>>

(***************************************************************************)
(* Paths.  An absolute path is the sequence of its names ("/" is <<>>).   *)
(* A path string that the script splits and joins itself is held as its   *)
(* parts: "/a/b" is <<"", "a", "b">>, "/" is <<"", "">>, "" is <<"">>.    *)
(***************************************************************************)
\* cwd.split(seperator)
Split(dir) == IF dir = <<>> THEN <<"", "">> ELSE <<"">> \o dir

\* The directory a path string names to the file system: the empty string
\* is relative, and names the working directory.
AbsOf(parts, dir) ==
    IF parts = <<"">> THEN dir
    ELSE IF parts = <<"", "">> THEN <<>>
    ELSE Tail(parts)

\* exists(join(location, 'package.json'))
HasMarker(parts, dir, fs) == (AbsOf(parts, dir) \o <<"package.json">>) \in fs

RECURSIVE Walk(_, _, _)
Walk(parts, dir, fs) ==
    IF ~HasMarker(parts, dir, fs) /\ Len(parts) > 1
    THEN Walk(SubSeq(parts, 1, Len(parts) - 1), dir, fs)
    ELSE parts

findRoot(dir, fs) ==
    LET parts == Walk(Split(dir), dir, fs)
    IN  IF Len(parts) # 0 THEN parts ELSE Split(dir)

\* path.resolve(filename) of a relative name; the empty name is cwd itself.
resolve(name) == IF name = "" THEN cwd ELSE cwd \o <<name>>

exists(path) == path \in fsPaths

\* The test taking every string, the empty one included, as a path.
Truthy_AnyString(opt) == opt # <<>>

\* if (program.output)
Truthy(opt) == opt # <<>> /\ opt[1] # ""

(***************************************************************************)
(* find: the candidate locations of a plugin, the one selected, its load. *)
(***************************************************************************)
local(pathlike) == AbsOf(root, cwd) \o <<pathlike>>
localJs(pathlike) == AbsOf(root, cwd) \o <<pathlike \o ".js">>
npm(pathlike) == AbsOf(root, cwd) \o <<"node_modules", pathlike>>
current(pathlike) == cwd \o <<"node_modules", pathlike>>
\* A module target: a resolved path, or the bare identifier.
AtPath(path) == [bare |-> FALSE, at |-> path]
Bare(pathlike) == [bare |-> TRUE, at |-> <<pathlike>>]

\* Select with the installed package looked up before the local path.
Select_NpmFirst(pathlike) ==
    IF exists(npm(pathlike)) THEN AtPath(npm(pathlike))
    ELSE IF exists(local(pathlike)) \/ exists(localJs(pathlike))
    THEN AtPath(local(pathlike))
    ELSE IF exists(current(pathlike)) THEN AtPath(current(pathlike))
    ELSE Bare(pathlike)

Select(pathlike) ==
    IF exists(local(pathlike)) \/ exists(localJs(pathlike))
    THEN AtPath(local(pathlike))
    ELSE IF exists(npm(pathlike)) THEN AtPath(npm(pathlike))
    ELSE IF exists(current(pathlike)) THEN AtPath(current(pathlike))
    ELSE Bare(pathlike)

\* require(plugin): one entry of the load log.
Require(pathlike, plugin) ==
    [id |-> pathlike, plugin |-> plugin, ok |-> plugin \notin broken]

\* find falling back to the bare identifier when the selected path throws.
find_Retry(pathlike) ==
    LET first == Require(pathlike, Select(pathlike))
    IN  IF first.ok \/ first.plugin.bare
        THEN <<first>>
        ELSE <<first, Require(pathlike, Bare(pathlike))>>

\* find with a catch block that swallows the exception of require.
find_Swallow(pathlike) ==
    <<[Require(pathlike, Select(pathlike)) EXCEPT !.ok = TRUE]>>

\* The loads one call of find makes, in order: the selected target, once.
find(pathlike) == <<Require(pathlike, Select(pathlike))>>

(***************************************************************************)
(* The initial state: the script has parsed its arguments (line 235) and  *)
(* is about to validate the invocation (line 301).                        *)
(***************************************************************************)
\* The project marker of the pipeline specification: /a/package.json.
MarkerFile == <<"a", "package.json">>
\* The plugin files that may exist: the candidate locations of "p".
PluginFiles ==
    { <<"a", "p">>, <<"a", "p.js">>,
      <<"a", "node_modules", "p">>, <<"a", "b", "node_modules", "p">> }
\* The module targets find can ask require() for.
Targets ==
    { AtPath(<<"a", "p">>), AtPath(<<"a", "node_modules", "p">>),
      AtPath(<<"a", "b", "node_modules", "p">>) } \cup { Bare(id) : id \in Ids }

\* What the script calls: the counted callees.
Callees ==
    {"read", "Configuration", "getConfiguration", "find", "use", "parse",
     "stringify", "serialise"}

\* require(path) finds a module at path: the path, or the path with .js.
Present(path, fs) ==
    \/ path \in fs
    \/ (SubSeq(path, 1, Len(path) - 1) \o <<path[Len(path)] \o ".js">>) \in fs

\* The targets whose load can throw for a reason of their own: the modules
\* that exist, and the bare names, whose lookup is the runtime's.
Breakable(fs) == { t \in Targets : t.bare \/ Present(t.at, fs) }

\* A text is the sequence of its symbols: a symbol is a space, a
\* punctuation character, a digit or a word (a run of letters).  No
\* occurrence of an option is being parsed.
NoArg == [state |-> "none", text |-> <<>>, entries |-> <<>>]

\* The option defaults: program.setting is {}, program.use is [].
InitArgs ==
    /\ optArg = NoArg
    /\ supplied = <<>>
    /\ setting = <<>>
    /\ use = <<>>

\* Nothing has run yet: no input, no call, no output, no exit.
InitRun ==
    /\ reading = <<>>
    /\ listening = FALSE
    /\ dataSeen = 0
    /\ stdinEnded = FALSE
    /\ filename = <<>>
    /\ options = <<>>
    /\ index = 0
    /\ calls = [c \in Callees |-> 0]
    /\ loads = <<>>
    /\ runs = 0
    /\ plugins = <<>>
    /\ used = <<>>
    /\ trace = <<>>
    /\ stdoutLog = <<>>
    /\ stderrLog = <<>>
    /\ pendingWrites = <<>>
    /\ written = <<>>
    /\ exitStatus = -1
    /\ viaFail = FALSE
    /\ failedStage = "none"

InitProgram ==
    /\ files = program.args
    /\ pc = "main"
    /\ InitRun

Init ==
    /\ expextPipeIn \in BOOLEAN
    /\ cwd = WorkDir
    /\ fsPaths \in { {MarkerFile} \cup X : X \in SUBSET PluginFiles }
    /\ root = findRoot(cwd, fsPaths)
    /\ broken \in SUBSET Breakable(fsPaths)
    /\ program \in [args : SeqUpTo(FileNames, MaxFiles), output : OutputValues,
                    ast : BOOLEAN, settings : BOOLEAN]
    /\ InitArgs
    /\ InitProgram

(***************************************************************************)
(* The two ways the process ends on an error.                              *)
(***************************************************************************)
\* process.exit(1) of fail()
FailExitStatus == 1

\* fail without process.exit: the message is written and the event loop
\* goes on.
fail_NoExit(stage) ==
    /\ stderrLog' = Append(stderrLog, stage)
    /\ exitStatus' = exitStatus
    /\ viaFail' = TRUE
    /\ failedStage' = stage
    /\ pc' = "loop"

\* fail(message): the message goes to stderr and the process exits.
fail(stage) ==
    /\ stderrLog' = Append(stderrLog, stage)
    /\ exitStatus' = FailExitStatus
    /\ viaFail' = TRUE
    /\ failedStage' = stage
    /\ pc' = "exited"

\* An exception no try block of the script catches: the runtime prints the
\* trace and ends the process; fail() is not involved.
uncaught(stage) ==
    /\ stderrLog' = Append(stderrLog, stage)
    /\ exitStatus' \in UncaughtExitCodes
    /\ viaFail' = FALSE
    /\ failedStage' = stage
    /\ pc' = "exited"

(***************************************************************************)
(* The top-level script, lines 301-341.                                    *)
(***************************************************************************)
\* if (program.settings)
SettingsRequested == program.settings

\* !expextPipeIn && !files.length
NoInput == ~expextPipeIn /\ Len(files) = 0

\* The test without its clause for piped input.
InvalidInvocation_NoPipeClause == ~expextPipeIn /\ Len(files) # 1

\* The test accepting any number of files on a terminal.
InvalidInvocation_AtLeastOne ==
    \/ expextPipeIn /\ Len(files) # 0
    \/ ~expextPipeIn /\ Len(files) < 1

\* (expextPipeIn && files.length) || (!expextPipeIn && files.length !== 1)
InvalidInvocation ==
    \/ expextPipeIn /\ Len(files) # 0
    \/ ~expextPipeIn /\ Len(files) # 1

\* files.map(path.resolve), then the read of files[0] or the stdin listener.
Dispatch(fs) ==
    /\ files' = [i \in 1..Len(fs) |-> resolve(fs[i])]
    /\ IF Len(fs) > 0
       THEN /\ reading' = <<resolve(fs[1])>>
            /\ UNCHANGED listening
       ELSE /\ listening' = TRUE
            /\ UNCHANGED reading
    /\ pc' = "loop"
    /\ UNCHANGED <<envVars, dataSeen, stdinEnded, runVars, outVars, endVars>>

\* The settings branch without its else: the help, then the input dispatch.
PrintSettings_NoElse ==
    /\ pc = "main"
    /\ SettingsRequested
    /\ stdoutLog' = Append(stdoutLog, "settings")
    /\ files' = [i \in 1..Len(files) |-> resolve(files[i])]
    /\ IF Len(files) > 0
       THEN /\ reading' = <<resolve(files[1])>>
            /\ UNCHANGED listening
       ELSE /\ listening' = TRUE
            /\ UNCHANGED reading
    /\ pc' = "loop"
    /\ UNCHANGED <<envVars, dataSeen, stdinEnded, runVars, pendingWrites,
                   written, endVars>>

\* program.emit('--settings'): the settings help, nothing else.
PrintSettings ==
    /\ pc = "main"
    /\ SettingsRequested
    /\ stdoutLog' = Append(stdoutLog, "settings")
    /\ pc' = "loop"
    /\ UNCHANGED <<envVars, files, inVars, runVars, pendingWrites, written, endVars>>

\* files.push(program.output): the output path is the input path.
OutputAsInput ==
    /\ pc = "main"
    /\ ~SettingsRequested
    /\ NoInput
    /\ Truthy(program.output)
    /\ Dispatch(Append(files, program.output[1]))

\* program.outputHelp(); process.exit(1)
HelpAndExit ==
    /\ pc = "main"
    /\ ~SettingsRequested
    /\ NoInput
    /\ ~Truthy(program.output)
    /\ stdoutLog' = Append(stdoutLog, "help")
    /\ exitStatus' = 1
    /\ failedStage' = "usage"
    /\ pc' = "exited"
    /\ UNCHANGED <<envVars, files, inVars, runVars, pendingWrites, written,
                   stderrLog, viaFail>>

\* fail('mdast currently expects one file.')
RejectInvocation ==
    /\ pc = "main"
    /\ ~SettingsRequested
    /\ ~NoInput
    /\ InvalidInvocation
    /\ fail("invocation")
    /\ UNCHANGED <<envVars, files, inVars, runVars, outVars>>

StartInput ==
    /\ pc = "main"
    /\ ~SettingsRequested
    /\ ~NoInput
    /\ ~InvalidInvocation
    /\ Dispatch(files)

(***************************************************************************)
(* Input: the read callback (lines 329-335) and the stdin events (339).   *)
(***************************************************************************)
Bump(c) == [calls EXCEPT ![c] = @ + 1]

\* The callback of fs.readFile: fail on an error, else run(value, files[0]).
ReadCallback ==
    /\ pc = "loop"
    /\ reading # <<>>
    /\ reading' = <<>>
    /\ calls' = Bump("read")
    /\ trace' = <<"read">>
    /\ plugins' = <<>>
    /\ used' = <<>>
    /\ \/ /\ fail("read")
          /\ UNCHANGED <<filename, runs>>
       \/ /\ filename' = <<files[1]>>
          /\ runs' = runs + 1
          /\ pc' = "Configuration"
          /\ UNCHANGED endVars
    /\ UNCHANGED <<envVars, files, listening, dataSeen, stdinEnded, options,
                   index, loads, outVars>>

\* stdin emits 'data': the listener is run itself, called with the chunk.
DataEvent ==
    /\ pc = "loop"
    /\ listening
    /\ ~stdinEnded
    /\ dataSeen < MaxData
    /\ dataSeen' = dataSeen + 1
    /\ filename' = <<>>
    /\ runs' = runs + 1
    /\ trace' = <<>>
    /\ plugins' = <<>>
    /\ used' = <<>>
    /\ pc' = "Configuration"
    /\ UNCHANGED <<envVars, files, reading, listening, stdinEnded, options,
                   index, calls, loads, outVars, endVars>>

\* stdin emits 'end'; the script has no listener for it.
StdinEnd ==
    /\ pc = "loop"
    /\ listening
    /\ ~stdinEnded
    /\ stdinEnded' = TRUE
    /\ UNCHANGED <<envVars, files, pc, reading, listening, dataSeen, runVars,
                   outVars, endVars>>

(***************************************************************************)
(* run(value, filename), lines 250-299, statement by statement.            *)
(***************************************************************************)
\* The call is the first of its kind.  Configuration, getConfiguration and
\* use get the same arguments in every run of one execution, so a call that
\* returned once returns again; only the first call can throw.
First(c) == calls[c] = 0

\* new Configuration(...), inside try; catch calls fail.
NewConfiguration ==
    /\ pc = "Configuration"
    /\ trace' = Append(trace, "Configuration")
    /\ calls' = Bump("Configuration")
    /\ \/ /\ pc' = "getConfiguration"
          /\ UNCHANGED endVars
       \/ /\ First("Configuration")
          /\ fail("Configuration")
    /\ UNCHANGED <<envVars, files, inVars, filename, options, index, loads,
                   runs, plugins, used, outVars>>

\* The plugin lists a configuration can hold.
PluginLists == SeqUpTo(Ids, MaxPlugins)

\* options = configuration.getConfiguration(filename), outside any try.
\* The same filename and the same files give the same configuration.
GetConfiguration ==
    /\ pc = "getConfiguration"
    /\ trace' = Append(trace, "getConfiguration")
    /\ calls' = Bump("getConfiguration")
    /\ \/ /\ options' \in IF options = <<>>
                          THEN { <<l>> : l \in PluginLists }
                          ELSE { options }
          /\ index' = 0
          /\ pc' = "find"
          /\ UNCHANGED endVars
       \/ /\ First("getConfiguration")
          /\ uncaught("getConfiguration")
          /\ UNCHANGED <<options, index>>
    /\ UNCHANGED <<envVars, files, inVars, filename, loads, runs, plugins, used,
                   outVars>>

\* map going over the list from its end.
Mapped_FromEnd(list, done) == list[Len(list) - done]

\* The element Array.prototype.map hands to its callback after done calls.
Mapped(list, done) == list[done + 1]

\* One call of find by options.plugins.map(find): the load of the next
\* plugin; its catch calls fail.
FindPlugin ==
    /\ pc = "find"
    /\ index < Len(options[1])
    /\ trace' = Append(trace, "find")
    /\ LET made == find(Mapped(options[1], index))
       IN  /\ loads' = loads \o made
           /\ calls' = Bump("find")
           /\ IF made[Len(made)].ok
              THEN /\ index' = index + 1
                   /\ plugins' = Append(plugins, made[Len(made)].plugin)
                   /\ UNCHANGED <<pc, endVars>>
              ELSE /\ fail("load")
                   /\ UNCHANGED <<index, plugins>>
    /\ UNCHANGED <<envVars, files, inVars, filename, options, runs, used, outVars>>

\* parser.use(plugins), once map(find) returned; outside any try.
UsePlugins ==
    /\ pc = "find"
    /\ index = Len(options[1])
    /\ trace' = Append(trace, "use")
    /\ calls' = Bump("use")
    /\ \/ /\ used' = <<plugins>>
          /\ pc' = "parse"
          /\ UNCHANGED endVars
       \/ /\ First("use")
          /\ uncaught("use")
          /\ UNCHANGED used
    /\ UNCHANGED <<envVars, files, inVars, filename, options, index, loads,
                   runs, plugins, outVars>>

\* doc = parser.parse(value, options.settings), inside try.
Parse ==
    /\ pc = "parse"
    /\ trace' = Append(trace, "parse")
    /\ calls' = Bump("parse")
    /\ \/ /\ pc' = "produce"
          /\ UNCHANGED endVars
       \/ fail("parse")
    /\ UNCHANGED <<envVars, files, inVars, filename, options, index, loads,
                   runs, plugins, used, outVars>>

\* The --ast flag ignored.
AstRequested_Ignored == FALSE

\* if (program.ast)
AstRequested == program.ast

\* doc = JSON.stringify(doc, null, 2), outside any try.
Serialise ==
    /\ pc = "produce"
    /\ AstRequested
    /\ trace' = Append(trace, "serialise")
    /\ calls' = Bump("serialise")
    /\ \/ /\ pc' = "output"
          /\ UNCHANGED endVars
       \/ uncaught("serialise")
    /\ UNCHANGED <<envVars, files, inVars, filename, options, index, loads,
                   runs, plugins, used, outVars>>

\* doc = parser.stringify(doc, options.settings), outside any try.
Stringify ==
    /\ pc = "produce"
    /\ ~AstRequested
    /\ trace' = Append(trace, "stringify")
    /\ calls' = Bump("stringify")
    /\ \/ /\ pc' = "output"
          /\ UNCHANGED endVars
       \/ uncaught("stringify")
    /\ UNCHANGED <<envVars, files, inVars, filename, options, index, loads,
                   runs, plugins, used, outVars>>

\* write(program.output, doc, callback): the write is started, run returns.
WriteFile ==
    /\ pc = "output"
    /\ Truthy(program.output)
    /\ trace' = Append(trace, "output")
    /\ pendingWrites' = Append(pendingWrites, resolve(program.output[1]))
    /\ pc' = "loop"
    /\ UNCHANGED <<envVars, files, inVars, filename, options, index, calls, loads,
                   runs, plugins, used, stdoutLog, written, endVars>>

\* stdout.write(doc); run returns.
WriteStdout ==
    /\ pc = "output"
    /\ ~Truthy(program.output)
    /\ trace' = Append(trace, "output")
    /\ stdoutLog' = Append(stdoutLog, "doc")
    /\ pc' = "loop"
    /\ UNCHANGED <<envVars, files, inVars, filename, options, index, calls, loads,
                   runs, plugins, used, pendingWrites, written, endVars>>

Remove(seq, i) == SubSeq(seq, 1, i - 1) \o SubSeq(seq, i + 1, Len(seq))

\* The callback of one fs.writeFile in flight: fail on an error.
WriteCallback ==
    /\ pc = "loop"
    /\ \E i \in 1..Len(pendingWrites) :
          /\ pendingWrites' = Remove(pendingWrites, i)
          /\ \/ /\ written' = Append(written, pendingWrites[i])
                /\ UNCHANGED <<pc, endVars>>
             \/ /\ fail("write")
                /\ UNCHANGED written
    /\ UNCHANGED <<envVars, files, inVars, runVars, stdoutLog>>

\* Nothing is pending and nothing is listened to: the process ends, status 0.
ProcessEnd ==
    /\ pc = "loop"
    /\ reading = <<>>
    /\ pendingWrites = <<>>
    /\ listening => stdinEnded
    /\ exitStatus' = 0
    /\ pc' = "exited"
    /\ UNCHANGED <<envVars, files, inVars, runVars, outVars, stderrLog, viaFail,
                   failedStage>>

Next ==
    \/ PrintSettings \/ OutputAsInput \/ HelpAndExit \/ RejectInvocation
    \/ StartInput
    \/ ReadCallback \/ DataEvent \/ StdinEnd
    \/ NewConfiguration \/ GetConfiguration \/ FindPlugin \/ UsePlugins
    \/ Parse \/ Serialise \/ Stringify \/ WriteFile \/ WriteStdout
    \/ WriteCallback \/ ProcessEnd

Spec == Init /\ [][Next]_vars

(***************************************************************************)
(* Properties.                                                             *)
(***************************************************************************)
Range(seq) == { seq[i] : i \in 1..Len(seq) }

\* No input was read or listened for, no collaborator was called, no plugin
\* was loaded and no output was started.
NothingAttempted ==
    /\ calls = [c \in Callees |-> 0]
    /\ loads = <<>>
    /\ runs = 0
    /\ reading = <<>>
    /\ ~listening
    /\ dataSeen = 0
    /\ pendingWrites = <<>>
    /\ written = <<>>

\* The script is over, with status 1, once it left its top level.
EndedWithOne == pc # "main" => (pc = "exited" /\ exitStatus = 1)

\* The stages of a run that can fail.
Stages ==
    {"read", "Configuration", "getConfiguration", "load", "use", "parse",
     "stringify", "serialise", "write"}

\* C1: whichever stage of a run fails, the failure is reported by fail():
\* its message is on standard error and the exit status is 1.
C1_EveryFailureThroughFail ==
    failedStage \in Stages =>
        /\ viaFail
        /\ exitStatus = 1
        /\ stderrLog = <<failedStage>>

\* C2: an execution that ended in failure has put no transform output on
\* standard output and has written no output file.
C2_NoOutputBeforeFailure ==
    (pc = "exited" /\ exitStatus # 0) =>
        /\ "doc" \notin Range(stdoutLog)
        /\ written = <<>>

\* C3: configuration resolution, parse, the result producer and the output
\* write are each attempted at most once in one execution, no more plugins
\* are loaded than the plugin list holds, and each exactly once when a run
\* ended the execution with status 0.
C3_EachStageAtMostOnce ==
    LET produced == calls.stringify + calls.serialise
        outputs == Len(pendingWrites) + Len(written)
                   + Cardinality({i \in 1..Len(stdoutLog) : stdoutLog[i] = "doc"})
    IN  /\ calls.Configuration <= 1
        /\ calls.getConfiguration <= 1
        /\ options # <<>> => Len(loads) <= Len(options[1])
        /\ calls.parse <= 1
        /\ produced <= 1
        /\ outputs <= 1
        /\ (pc = "exited" /\ exitStatus = 0 /\ runs > 0) =>
              /\ calls.Configuration = 1
              /\ calls.getConfiguration = 1
              /\ Len(loads) = Len(options[1])
              /\ calls.parse = 1
              /\ produced = 1
              /\ outputs = 1

\* C4: piped input with a positional file and no --settings: the process
\* exits with status 1 and nothing was read, resolved, loaded or transformed.
C4_PipedWithFileRejected ==
    (expextPipeIn /\ Len(program.args) > 0 /\ ~program.settings) =>
        /\ NothingAttempted
        /\ EndedWithOne

C4_Witness ==
    /\ expextPipeIn /\ Len(program.args) > 0 /\ ~program.settings
    /\ pc = "exited"
    /\ stderrLog = <<"invocation">>

\* The one input of the execution is the file at path.
InputIs(path) ==
    /\ ~listening
    /\ dataSeen = 0
    /\ files = <<path>>
    /\ \/ reading = <<path>> /\ calls.read = 0
       \/ reading = <<>> /\ calls.read = 1
    /\ runs <= 1
    /\ runs = 1 => filename = <<path>>

\* Every write goes to path, and none starts before the read is over.
WritesFollowReadOf(path) ==
    /\ Range(pendingWrites) \cup Range(written) \subseteq {path}
    /\ (pendingWrites # <<>> \/ written # <<>>) =>
          (reading = <<>> /\ calls.read = 1)

\* The four cases of an invocation on a terminal without --settings, with
\* given telling whether --output counts as given.
C5_Cases(given) ==
    (~expextPipeIn /\ ~program.settings) =>
        /\ Len(program.args) = 1 =>
              (pc # "main" => InputIs(cwd \o <<program.args[1]>>))
        /\ (Len(program.args) = 0 /\ given) =>
              (pc # "main" =>
                  /\ InputIs(cwd \o <<program.output[1]>>)
                  /\ WritesFollowReadOf(cwd \o <<program.output[1]>>))
        /\ (Len(program.args) = 0 /\ ~given) =>
              (NothingAttempted /\ EndedWithOne)
        /\ Len(program.args) >= 2 =>
              (NothingAttempted /\ EndedWithOne)

\* C5 as stated: on a terminal without --settings, one file is the input;
\* no file and --output given, the output path is read, then written; no
\* file and no --output, or several files, exit 1 and no transform.
C5_AsStated == C5_Cases(program.output # <<>>)

\* C5, amended: as stated, with --output counting as given only when its
\* value is not the empty string; an empty value is the case of no --output.
C5_TerminalInvocation ==
    C5_Cases(program.output # <<>> /\ program.output[1] # "")

C5_Witness ==
    /\ ~expextPipeIn /\ ~program.settings
    /\ program.args = <<>>
    /\ program.output = <<"o.md">>
    /\ calls.read = 1
    /\ written = <<cwd \o <<"o.md">>>>

\* C6: with --settings the settings help is printed and the process ends;
\* nothing is read, resolved, loaded, transformed or written.
C6_SettingsOnly ==
    program.settings =>
        /\ NothingAttempted
        /\ stderrLog = <<>>
        /\ pc # "main" => stdoutLog = <<"settings">>
        /\ pc = "exited" => exitStatus = 0

C6_Witness ==
    /\ program.settings
    /\ expextPipeIn
    /\ Len(program.args) = 2
    /\ program.output = <<"o.md">>
    /\ program.ast
    /\ pc = "exited"

\* C7: with --ast stringify is never called, without it the tree is never
\* serialised, and every parse that returned is followed by one call of
\* the producer the flag names.
C7_OneProducer ==
    LET parsed == calls.parse - (IF failedStage = "parse" THEN 1 ELSE 0)
        produced == calls.stringify + calls.serialise
    IN  /\ program.ast => calls.stringify = 0
        /\ ~program.ast => calls.serialise = 0
        /\ pc = "produce" => produced = parsed - 1
        /\ pc # "produce" => produced = parsed

C7_Witness ==
    /\ program.ast
    /\ calls.serialise = 2
    /\ pc = "loop"

\* The candidate locations of an identifier, in the order of the search.
Candidates(id) == <<local(id), npm(id), current(id)>>

\* The i-th candidate of id exists (the first also as a .js file).
CandidateExists(id, i) ==
    \/ Candidates(id)[i] \in fsPaths
    \/ i = 1 /\ localJs(id) \in fsPaths

\* C8: every target find selected is the first candidate that exists, in
\* the order local path, root/node_modules, cwd/node_modules, and the bare
\* identifier only when no candidate exists.
C8_FirstExistingCandidate ==
    \A e \in Range(loads) :
        IF e.plugin.bare
        THEN /\ e.plugin.at = <<e.id>>
             /\ \A i \in 1..3 : ~CandidateExists(e.id, i)
        ELSE \E i \in 1..3 :
                /\ e.plugin.at = Candidates(e.id)[i]
                /\ CandidateExists(e.id, i)
                /\ \A j \in 1..(i - 1) : ~CandidateExists(e.id, j)

C8_Witness ==
    \E e \in Range(loads) :
        /\ local(e.id) \notin fsPaths
        /\ localJs(e.id) \in fsPaths
        /\ npm(e.id) \in fsPaths
        /\ current(e.id) \in fsPaths
        /\ e.plugin = AtPath(local(e.id))

\* C9: each call of find makes one load, of the target it selected; a load
\* that fails is the last one of the execution, which fail() ended with
\* status 1.
C9_OneLoadNoRetry ==
    /\ Len(loads) = calls.find
    /\ \A i \in 1..Len(loads) :
          ~loads[i].ok =>
              /\ i = Len(loads)
              /\ pc = "exited"
              /\ viaFail
              /\ exitStatus = 1
              /\ failedStage = "load"

C9_Witness ==
    \E i \in 1..Len(loads) :
        /\ ~loads[i].ok
        /\ loads[i].plugin = AtPath(local(loads[i].id))
        /\ npm(loads[i].id) \in fsPaths
        /\ AtPath(npm(loads[i].id)) \notin broken
        /\ Bare(loads[i].id) \notin broken
        /\ pc = "exited"

\* The identifier exists at no candidate location and does not load as a
\* bare module name.
Unloadable(id) ==
    /\ \A i \in 1..3 : ~CandidateExists(id, i)
    /\ Bare(id) \in broken

\* C10: once the effective plugin list holds an identifier that exists at
\* no candidate location and does not load as a bare name, parse and the
\* producers are never called, nothing is written to standard output or to
\* a file, and the process ends with status 1.
C10_UnloadablePluginAborts ==
    (options # <<>> /\ \E id \in Range(options[1]) : Unloadable(id)) =>
        /\ calls.parse = 0
        /\ calls.stringify = 0
        /\ calls.serialise = 0
        /\ calls.use = 0
        /\ stdoutLog = <<>>
        /\ pendingWrites = <<>>
        /\ written = <<>>
        /\ pc = "exited" => exitStatus = 1

C10_Witness ==
    /\ options # <<>>
    /\ Len(options[1]) = 2
    /\ ~Unloadable(options[1][1])
    /\ Unloadable(options[1][2])
    /\ Len(loads) = 2
    /\ pc = "exited"

(***************************************************************************)
(* findRoot on its own: the script at line 80, for every working          *)
(* directory and every placement of package.json files on its path.       *)
(***************************************************************************)
\* dir and its ancestors, the filesystem root included.
Ancestors(dir) == { SubSeq(dir, 1, n) : n \in 0..Len(dir) }

\* The parsed command line when only the root is looked at.
NoOptions == [args |-> <<>>, output |-> <<>>, ast |-> FALSE, settings |-> FALSE]

InitRoot ==
    /\ expextPipeIn = TRUE
    /\ cwd \in SeqUpTo(DirNames, MaxDepth)
    /\ fsPaths \in SUBSET { d \o <<"package.json">> : d \in Ancestors(cwd) }
    /\ root = <<>>
    /\ broken = {}
    /\ program = NoOptions
    /\ InitArgs
    /\ files = <<>>
    /\ pc = "findRoot"
    /\ InitRun

\* var root = findRoot();
LocateRoot ==
    /\ pc = "findRoot"
    /\ root' = findRoot(cwd, fsPaths)
    /\ pc' = "main"
    /\ UNCHANGED <<expextPipeIn, cwd, fsPaths, broken, program, argVars, files,
                   inVars, runVars, outVars, endVars>>

NextRoot == LocateRoot

SpecRoot == InitRoot /\ [][NextRoot]_vars

\* The directories on the way up from cwd that hold a package.json.
Marked == { d \in Ancestors(cwd) : (d \o <<"package.json">>) \in fsPaths }

\* The deepest of them.
Nearest == CHOOSE d \in Marked : \A e \in Marked : Len(e) <= Len(d)

\* C11: when the working directory or one of its ancestors, the filesystem
\* root included, holds a package.json, findRoot returns the path of the
\* nearest one.
C11_NearestMarkedAncestor ==
    (pc = "main" /\ Marked # {}) => root = Split(Nearest)

\* C12: when neither the working directory nor any ancestor holds a
\* package.json, findRoot returns the working directory.
C12_NoMarkerGivesCwd ==
    (pc = "main" /\ Marked = {}) => root = Split(cwd)

(***************************************************************************)
(* The option parsers parseSetting (122-142) and parsePlugin (151-153).   *)
(***************************************************************************)
\* The positions of text that hold a symbol of D.
Hits(text, D) == { i \in 1..Len(text) : text[i] \in D }

Min(S) == CHOOSE i \in S : \A j \in S : i <= j

\* text cut at every symbol of D.
RECURSIVE Cut(_, _)
Cut(text, D) ==
    IF Hits(text, D) = {}
    THEN <<text>>
    ELSE LET i == Min(Hits(text, D))
         IN  <<SubSeq(text, 1, i - 1)>> \o Cut(SubSeq(text, i + 1, Len(text)), D)

RECURSIVE StripLeft(_)
StripLeft(text) ==
    IF text # <<>> /\ text[1] = " " THEN StripLeft(Tail(text)) ELSE text

RECURSIVE StripRight(_)
StripRight(text) ==
    IF text # <<>> /\ text[Len(text)] = " "
    THEN StripRight(SubSeq(text, 1, Len(text) - 1))
    ELSE text

\* text.split(/ *[D] */): the pieces between the symbols of D, without the
\* spaces next to such a symbol.
SplitOn(text, D) ==
    LET raw == Cut(text, D)
    IN  [k \in 1..Len(raw) |->
            LET l == IF k > 1 THEN StripLeft(raw[k]) ELSE raw[k]
            IN  IF k < Len(raw) THEN StripRight(l) ELSE l]

\* SPLITTER = / *[,;] */g
SPLITTER == {",", ";"}
\* DELIMITER = / *: */
DELIMITER == {":"}

\* parts.join(glue)
RECURSIVE Join(_, _)
Join(parts, glue) ==
    IF parts = <<>> THEN <<>>
    ELSE IF Len(parts) = 1 THEN parts[1]
    ELSE parts[1] \o <<glue>> \o Join(Tail(parts), glue)

\* The digits among the symbols, and their values.
Digit == [d \in {"0", "1", "3"} |-> IF d = "0" THEN 0 ELSE IF d = "1" THEN 1 ELSE 3]

\* str.trim()
Trim(text) == StripLeft(StripRight(text))

\* The digits of a decimal literal, after the sign if there is one.
Unsigned(text) == IF text # <<>> /\ text[1] = "-" THEN Tail(text) ELSE text

\* Number(value) is not NaN: blank, or an optional sign and digits.
IsNumber(value) ==
    LET t == Trim(value)
    IN  \/ t = <<>>
        \/ /\ Unsigned(t) # <<>>
           /\ \A i \in 1..Len(Unsigned(t)) : Unsigned(t)[i] \in DOMAIN Digit

RECURSIVE Decimal(_)
Decimal(digits) ==
    IF digits = <<>> THEN 0
    ELSE 10 * Decimal(SubSeq(digits, 1, Len(digits) - 1)) + Digit[digits[Len(digits)]]

\* Number(value), for a value that is a number.
NumberOf(value) ==
    LET t == Trim(value)
    IN  IF t # <<>> /\ t[1] = "-" THEN 0 - Decimal(Tail(t)) ELSE Decimal(t)

\* The values of a setting: a boolean, a number or a string.
Boolean(b) == [type |-> "boolean", bool |-> b, num |-> 0, str |-> <<>>]
Numeric(n) == [type |-> "number", bool |-> FALSE, num |-> n, str |-> <<>>]
String(text) == [type |-> "string", bool |-> FALSE, num |-> 0, str |-> text]

\* Coerce with the boolean literals matched in any letter case.
Coerce_AnyCase(value) ==
    LET lower == [i \in 1..Len(value) |->
                     IF value[i] = "TRUE" THEN "true" ELSE value[i]]
    IN  IF lower = <<"true">> \/ value = <<>> THEN Boolean(TRUE)
        ELSE IF lower = <<"false">> THEN Boolean(FALSE)
        ELSE IF IsNumber(value) THEN Numeric(NumberOf(value))
        ELSE String(value)

\* Lines 130-136: the coercion of a raw value.
Coerce(value) ==
    IF value = <<"true">> \/ value = <<>> THEN Boolean(TRUE)
    ELSE IF value = <<"false">> THEN Boolean(FALSE)
    ELSE IF IsNumber(value) THEN Numeric(NumberOf(value))
    ELSE String(value)

\* The words, each with its lower-case form and its capitalised form.
Words ==
    { <<"a", "a", "A">>, <<"b", "b", "B">>, <<"c", "c", "C">>,
      <<"setext", "setext", "Setext">>, <<"bullet", "bullet", "Bullet">>,
      <<"rule", "rule", "Rule">>,
      <<"repetition", "repetition", "Repetition">>,
      <<"Repetition", "repetition", "Repetition">>,
      <<"footnotes", "footnotes", "Footnotes">>,
      <<"Footnotes", "footnotes", "Footnotes">>,
      <<"true", "true", "True">>, <<"TRUE", "true", "TRUE">>,
      <<"false", "false", "False">> }

IsWord(sym) == \E w \in Words : w[1] = sym
\* sym.toLowerCase()
Lower(sym) == IF IsWord(sym) THEN (CHOOSE w \in Words : w[1] = sym)[2] ELSE sym
\* sym with its first character in upper case
Capital(sym) == IF IsWord(sym) THEN (CHOOSE w \in Words : w[1] = sym)[3] ELSE sym
\* \w matches the first character of sym
WordStart(sym) == IsWord(sym) \/ sym \in DOMAIN Digit

\* The separators of camelcase, /[_.\- ]+/, among the symbols.
CaseSeparators == {"-", " "}

RECURSIVE StripSeparators(_)
StripSeparators(text) ==
    IF text # <<>> /\ text[1] \in CaseSeparators
    THEN StripSeparators(Tail(text))
    ELSE text

\* replace(/[_.\- ]+(\w|$)/g, upper-case of the group): a run of separators
\* goes, and the word after it is capitalised; a run before a symbol that
\* starts no word stays.
RECURSIVE Humps(_)
Humps(text) ==
    IF text = <<>> THEN <<>>
    ELSE IF text[1] \notin CaseSeparators THEN <<text[1]>> \o Humps(Tail(text))
    ELSE LET rest == StripSeparators(text)
         IN  IF rest = <<>> THEN <<>>
             ELSE IF WordStart(rest[1])
             THEN <<Capital(rest[1])>> \o Humps(Tail(rest))
             ELSE SubSeq(text, 1, Len(text) - Len(rest)) \o <<rest[1]>>
                  \o Humps(Tail(rest))

\* camelcase(str) of the camelcase package the script requires (line 11).
camelcase(str) ==
    LET t == Trim(str)
        lower == [i \in 1..Len(t) |-> Lower(t[i])]
    IN  IF \A i \in 1..Len(t) : t[i] \notin CaseSeparators
        THEN IF t # <<>> /\ Lower(t[1]) = t[1] /\ t # lower
             THEN t
             ELSE lower
        ELSE Humps(StripSeparators(lower))

\* Put that keeps the value a key already has.
Put_KeepFirst(cache, key, value) ==
    [k \in DOMAIN cache \cup {key} |->
        IF k \in DOMAIN cache THEN cache[k] ELSE value]

\* cache[key] = value
Put(cache, key, value) ==
    [k \in DOMAIN cache \cup {key} |-> IF k = key THEN value ELSE cache[k]]

\* The name and the raw value of one flag: flag.split(DELIMITER), then
\* flag[0] and flag.slice(1).join(':') (lines 126-128).
NameAndValue(flag) ==
    LET parts == SplitOn(flag, DELIMITER)
    IN  [name |-> parts[1], value |-> Join(Tail(parts), ":")]

RECURSIVE StoreFlags(_, _)
StoreFlags(flags, cache) ==
    IF flags = <<>> THEN cache
    ELSE LET flag == NameAndValue(flags[1])
         IN  StoreFlags(Tail(flags),
                        Put(cache, camelcase(flag.name), Coerce(flag.value)))

parseSetting(flags, cache) == StoreFlags(SplitOn(flags, SPLITTER), cache)

\* parsePlugin that leaves out the tokens the list already has.
parsePlugin_Dedup(ware, cache) ==
    LET Fresh(token) == \A i \in 1..Len(cache) : cache[i] # token
    IN  cache \o SelectSeq(SplitOn(ware, SPLITTER), Fresh)

parsePlugin(ware, cache) == cache \o SplitOn(ware, SPLITTER)

(***************************************************************************)
(* commander hands each occurrence of --setting to parseSetting together  *)
(* with the value of program.setting so far (line 165).                    *)
(***************************************************************************)
\* The entries an occurrence is written from: a name, the first colon with
\* the spaces around it (or nothing), and the text after it.
Entry(name, delim, value) == [name |-> name, delim |-> delim, value |-> value]

SettingEntries ==
    { Entry(<<"setext">>, <<>>, <<>>),
      Entry(<<"bullet">>, <<":", " ">>, <<"*">>),
      Entry(<<"Footnotes">>, <<":">>, <<"TRUE">>),
      Entry(<<"footnotes">>, <<":">>, <<"true">>),
      Entry(<<"rule", "-", "repetition">>, <<":">>, <<"3">>),
      Entry(<<"rule", "Repetition">>, <<" ", ":", " ">>, <<"false">>),
      Entry(<<"a">>, <<":">>, <<"b", ":", "c">>),
      Entry(<<"a">>, <<":">>, <<"b", " ", ":", " ", "c">>),
      Entry(<<"a">>, <<":">>, <<>>) }

\* The ways two entries are separated.
Separators == { <<",">>, <<" ", ";", " ">> }

EntryText(e) == e.name \o e.delim \o e.value

RECURSIVE Written(_, _)
Written(texts, sep) ==
    IF texts = <<>> THEN <<>>
    ELSE IF Len(texts) = 1 THEN texts[1]
    ELSE texts[1] \o sep \o Written(Tail(texts), sep)

\* The key each name is documented to be stored under.
KeyOf(name) ==
    CASE name = <<"setext">> -> <<"setext">>
      [] name = <<"bullet">> -> <<"bullet">>
      [] name = <<"Footnotes">> -> <<"footnotes">>
      [] name = <<"footnotes">> -> <<"footnotes">>
      [] name = <<"rule", "-", "repetition">> -> <<"rule", "Repetition">>
      [] name = <<"rule", "Repetition">> -> <<"rule", "Repetition">>
      [] name = <<"a">> -> <<"a">>

\* The last entry written for each key, after entries are added to last.
RECURSIVE Latest(_, _)
Latest(entries, last) ==
    IF entries = <<>> THEN last
    ELSE Latest(Tail(entries),
                [k \in DOMAIN last \cup {KeyOf(entries[1].name)} |->
                    IF k = KeyOf(entries[1].name) THEN entries[1] ELSE last[k]])

Idle == optArg.state = "none"

\* commander goes on to the next argument of the command line.
NextArg ==
    /\ optArg.state = "parsed"
    /\ optArg' = NoArg
    /\ UNCHANGED <<expextPipeIn, cwd, root, fsPaths, broken, program, supplied,
                   setting, use, files, pc, inVars, runVars, outVars, endVars>>

ReadSetting ==
    /\ Idle
    /\ \E entries \in SeqUpTo(SettingEntries, MaxEntries) \ {<<>>} :
       \E sep \in Separators :
          /\ Len(entries) = 1 => sep = <<",">>
          /\ optArg' = [state |-> "read",
                        text |-> Written([i \in 1..Len(entries) |->
                                             EntryText(entries[i])], sep),
                        entries |-> entries]
          /\ supplied' = Latest(entries, supplied)
    /\ UNCHANGED <<expextPipeIn, cwd, root, fsPaths, broken, program, setting, use,
                   files, pc, inVars, runVars, outVars, endVars>>

ParseSetting ==
    /\ optArg.state = "read"
    /\ setting' = parseSetting(optArg.text, setting)
    /\ optArg' = [optArg EXCEPT !.state = "parsed"]
    /\ UNCHANGED <<expextPipeIn, cwd, root, fsPaths, broken, program, supplied, use,
                   files, pc, inVars, runVars, outVars, endVars>>

\* Before program.parse (line 235) reads the command line.
InitSetting ==
    /\ expextPipeIn = TRUE
    /\ cwd = WorkDir
    /\ fsPaths = {MarkerFile}
    /\ root = findRoot(cwd, fsPaths)
    /\ broken = {}
    /\ program = NoOptions
    /\ InitArgs
    /\ InitProgram

NextSetting == ReadSetting \/ ParseSetting \/ NextArg

SpecSetting == InitSetting /\ [][NextSetting]_vars

\* The value each raw value is documented to become.
ValueOf(raw) ==
    CASE raw = <<>> -> Boolean(TRUE)
      [] raw = <<"true">> -> Boolean(TRUE)
      [] raw = <<"false">> -> Boolean(FALSE)
      [] raw = <<"3">> -> Numeric(3)
      [] OTHER -> String(raw)

\* The raw value the script takes from an entry (lines 126-128).
RawOf(e) == NameAndValue(EntryText(e)).value

\* The last entry of the occurrence that has the key of entry i.
LastOfKey(i) ==
    \A j \in 1..Len(optArg.entries) :
        KeyOf(optArg.entries[j].name) = KeyOf(optArg.entries[i].name) => j <= i

\* C13: once parseSetting has returned, the map holds exactly the
\* camel-cased names of the entries supplied, and under the camel-cased name
\* of every entry of the occurrence the value coerced by the ordered rules
\* (empty or "true" is true, "false" is false, a number is that number, any
\* other text, "TRUE" included, stays a string).
C13_CoercedUnderCamelKey ==
    optArg.state = "parsed" =>
        /\ DOMAIN setting = DOMAIN supplied
        /\ \A i \in 1..Len(optArg.entries) :
              LastOfKey(i) =>
                  setting[KeyOf(optArg.entries[i].name)]
                      = ValueOf(RawOf(optArg.entries[i]))

\* parseSetting returned for "Footnotes:TRUE,rule-repetition:3".
C13_Witness ==
    /\ optArg.state = "parsed"
    /\ optArg.entries = <<Entry(<<"Footnotes">>, <<":">>, <<"TRUE">>),
                          Entry(<<"rule", "-", "repetition">>, <<":">>, <<"3">>)>>
    /\ setting[<<"footnotes">>] = String(<<"TRUE">>)
    /\ setting[<<"rule", "Repetition">>] = Numeric(3)

\* C14: between occurrences, every key holds the coerced value of the last
\* entry supplied for it, over all occurrences so far and within each, and
\* there are no other keys.
C14_LastWriteWins ==
    optArg.state \in {"none", "parsed"} =>
        /\ DOMAIN setting = DOMAIN supplied
        /\ \A k \in DOMAIN supplied : setting[k] = ValueOf(RawOf(supplied[k]))

\* An occurrence that sets one key twice, to different values, was parsed
\* after an earlier occurrence set another key, which is kept.
C14_Witness ==
    /\ optArg.state = "parsed"
    /\ \E i, j \in 1..Len(optArg.entries) :
          /\ i < j
          /\ KeyOf(optArg.entries[i].name) = KeyOf(optArg.entries[j].name)
          /\ ValueOf(RawOf(optArg.entries[i])) # ValueOf(RawOf(optArg.entries[j]))
    /\ \E k \in DOMAIN setting :
          \A i \in 1..Len(optArg.entries) : KeyOf(optArg.entries[i].name) # k

\* C20: once parseSetting has returned, every entry of the occurrence was
\* split at its first colon only: the name is the text before that colon,
\* the raw value all the text after the colon delimiter, character for
\* character, and that text is what was coerced and stored.
C20_FirstColonOnly ==
    optArg.state = "parsed" =>
        \A i \in 1..Len(optArg.entries) :
            /\ NameAndValue(EntryText(optArg.entries[i]))
                  = [name |-> optArg.entries[i].name,
                     value |-> optArg.entries[i].value]
            /\ LastOfKey(i) =>
                  setting[KeyOf(optArg.entries[i].name)]
                      = ValueOf(optArg.entries[i].value)

(***************************************************************************)
(* commander hands each occurrence of --use to parsePlugin together with  *)
(* the value of program.use so far (line 166).                             *)
(***************************************************************************)
\* The tokens an occurrence is written from.
Tokens == { <<id>> : id \in Ids }

ReadUse ==
    /\ Idle
    /\ \E tokens \in SeqUpTo(Tokens, MaxEntries) \ {<<>>} :
       \E sep \in Separators :
          /\ Len(tokens) = 1 => sep = <<",">>
          /\ Len(supplied) + Len(tokens) <= MaxTokens
          /\ optArg' = [state |-> "read", text |-> Written(tokens, sep),
                        entries |-> tokens]
          /\ supplied' = supplied \o tokens
    /\ UNCHANGED <<expextPipeIn, cwd, root, fsPaths, broken, program, setting, use,
                   files, pc, inVars, runVars, outVars, endVars>>

ParseUse ==
    /\ optArg.state = "read"
    /\ use' = parsePlugin(optArg.text, use)
    /\ optArg' = [optArg EXCEPT !.state = "parsed"]
    /\ UNCHANGED <<expextPipeIn, cwd, root, fsPaths, broken, program, supplied,
                   setting, files, pc, inVars, runVars, outVars, endVars>>

NextUse == ReadUse \/ ParseUse \/ NextArg

SpecUse == InitSetting /\ [][NextUse]_vars

\* C15: between occurrences, program.use is the tokens of all occurrences so
\* far, concatenated in call order and in their written order: nothing is
\* removed, reordered or deduplicated, and the length is the number of
\* tokens supplied.
C15_TokensConcatenated ==
    optArg.state \in {"none", "parsed"} =>
        /\ use = supplied
        /\ Len(use) = Len(supplied)

\* --use p --use "p ; q" gave p, p, q.
C15_Witness ==
    /\ optArg.state = "parsed"
    /\ optArg.text = <<"p", " ", ";", " ", "q">>
    /\ use = << <<"p">>, <<"p">>, <<"q">> >>

(***************************************************************************)
(* The destination of the result.                                          *)
(***************************************************************************)
\* The step that leaves the output statement of run, and what it must do
\* when toFile tells whether the result belongs in the --output file.
OutputStep(toFile) ==
    /\ (pc = "output" /\ pc' # "output") =>
          IF toFile
          THEN /\ pendingWrites' = Append(pendingWrites, resolve(program.output[1]))
               /\ stdoutLog' = stdoutLog
          ELSE /\ stdoutLog' = Append(stdoutLog, "doc")
               /\ pendingWrites' = pendingWrites
               /\ written' = written
    /\ pc # "output" =>
          /\ Len(pendingWrites') <= Len(pendingWrites)
          /\ stdoutLog' = stdoutLog \/ stdoutLog'[Len(stdoutLog')] # "doc"
    /\ Len(written') > Len(written) =>
          /\ Len(pendingWrites) > 0
          /\ written'[Len(written')] = resolve(program.output[1])
    /\ (failedStage' = "write" /\ failedStage # "write") =>
          /\ Len(pendingWrites) > 0
          /\ viaFail'
          /\ exitStatus' = 1
          /\ stderrLog' = Append(stderrLog, "write")

\* C16 as stated: every result goes to the --output path and not to standard
\* output when --output is supplied, to standard output and to no file when
\* it is absent, and a failed write ends the process through fail().
C16_AsStated == [][OutputStep(program.output # <<>>)]_vars

\* C16, amended: as stated, with --output counting as supplied only when its
\* value is not the empty string; with the empty string the result goes to
\* standard output and no file is written.
C16_OneDestination ==
    [][OutputStep(program.output # <<>> /\ program.output[1] # "")]_vars

\* Two results were written to the --output file: one write completed, the
\* other failed, and nothing went to standard output.
C16_Witness ==
    /\ program.output = <<"o.md">>
    /\ written = <<resolve("o.md")>>
    /\ failedStage = "write"
    /\ exitStatus = 1
    /\ stdoutLog = <<>>

\* The statements of run.
RunStages == {"Configuration", "getConfiguration", "find", "parse", "produce",
              "output"}

\* C17: at every point at most one pipeline operation is in flight: the
\* transform that is running and the output writes that are pending are
\* never more than one together.
C17_OneOperationInFlight ==
    Len(pendingWrites) + (IF pc \in RunStages THEN 1 ELSE 0) <= 1

(***************************************************************************)
(* The order of the stages of one run.                                     *)
(***************************************************************************)
\* The place of each stage in the documented order.
Rank(stage) ==
    CASE stage = "read" -> 0
      [] stage = "Configuration" -> 1
      [] stage = "getConfiguration" -> 2
      [] stage = "find" -> 3
      [] stage = "use" -> 4
      [] stage = "parse" -> 5
      [] stage \in {"serialise", "stringify"} -> 6
      [] stage = "output" -> 7

\* The stage a failure is recorded for, as it is named in trace.
StageOf(failure) == IF failure = "load" THEN "find" ELSE failure

\* Failures of a stage of run, or of the read before it.
RunFailures == {"read", "Configuration", "getConfiguration", "load", "use",
                "parse", "serialise", "stringify", "write"}

\* The calls of find this run has made.
Finds == Cardinality({ i \in 1..Len(trace) : trace[i] = "find" })

\* C18: the stages a run has entered are in the documented order, none left
\* out: configuration, every plugin loaded, the plugins registered, parse,
\* stringify or serialise, output, after the read of the file when the input
\* is a file (the output path included).  A stage that failed is the last
\* one entered and the process has exited; the output is the last stage.
C18_StagesInOrder ==
    /\ trace # <<>> => Rank(trace[1]) = IF Len(files) > 0 THEN 0 ELSE 1
    /\ \A i \in 1..(Len(trace) - 1) :
          \/ Rank(trace[i + 1]) = Rank(trace[i]) + 1
          \/ trace[i] = "find" /\ trace[i + 1] = "find"
          \/ /\ trace[i] = "getConfiguration"
             /\ trace[i + 1] = "use"
             /\ options[1] = <<>>
    /\ (\E i \in 1..Len(trace) : trace[i] = "use") => Finds = Len(options[1])
    /\ \A i \in 1..Len(trace) : trace[i] = "output" => i = Len(trace)
    /\ failedStage \in RunFailures =>
          /\ pc = "exited"
          /\ failedStage # "write" => trace[Len(trace)] = StageOf(failedStage)
    /\ (pendingWrites # <<>> \/ written # <<>>) /\ Len(files) > 0 =>
          calls["read"] = 1 /\ reading = <<>>

\* The output path was used as the input: read, transformed with two
\* plugins, written.
C18_Witness ==
    /\ program.args = <<>>
    /\ files = <<resolve("o.md")>>
    /\ trace = <<"read", "Configuration", "getConfiguration", "find", "find",
                 "use", "parse", "stringify", "output">>
    /\ written = <<resolve("o.md")>>

\* The loads of this run: the last Finds entries of loads.
LoadsOfRun == SubSeq(loads, Len(loads) - Finds + 1, Len(loads))

\* C19: the plugins are loaded one at a time in list order and registered in
\* that order; when the load of the k-th fails, the ones before it were
\* loaded, the ones after it were neither resolved nor loaded, and nothing
\* was registered.
C19_PluginsInListOrder ==
    /\ Finds > 0 =>
          /\ Finds <= Len(options[1])
          /\ Len(loads) >= Finds
          /\ \A i \in 1..Finds :
                /\ LoadsOfRun[i].id = options[1][i]
                /\ LoadsOfRun[i].plugin = Select(options[1][i])
                /\ i < Finds => LoadsOfRun[i].ok
          /\ plugins = [i \in 1..Len(plugins) |-> Select(options[1][i])]
          /\ Len(plugins) = IF LoadsOfRun[Finds].ok THEN Finds ELSE Finds - 1
    /\ used # <<>> =>
          used[1] = [i \in 1..Len(options[1]) |-> Select(options[1][i])]
    /\ failedStage = "load" =>
          /\ ~LoadsOfRun[Finds].ok
          /\ used = <<>>
          /\ \A i \in 1..Len(trace) : trace[i] # "use"
          /\ pc = "exited"

\* The first of two plugins was loaded, the load of the second failed.
C19_Witness ==
    /\ failedStage = "load"
    /\ Len(options[1]) = 2
    /\ options[1][1] # options[1][2]
    /\ Finds = 2
    /\ LoadsOfRun[1].ok
    /\ used = <<>>

====
